---- MODULE Spec2Model ----
(***************************************************************************)
(* The persisted schema of InstallDocuments/models.py as a state machine:  *)
(* the tables, their foreign keys with their on_delete rules, their        *)
(* uniqueness constraints, User.save, and the insert / update / delete     *)
(* operations every models.Model offers on them.                           *)
(***************************************************************************)
EXTENDS Integers, FiniteSets, Sequences, TLC

VARIABLES db, nextId, mem, last

vars == <<db, nextId, mem, last>>

-----------------------------------------------------------------------------
(* Bounds of the model *)

\* rows ever inserted into one table (the cap of its id sequence)
MaxRows == 2
\* distinct values of a unique text column (email, device_name, token, ...)
MaxNames == 2
\* rows ever inserted into a table of which a specification needs one row
MaxSingle == 1
\* rows ever inserted, over all tables, where a specification caps the total
MaxTotal == 4

-----------------------------------------------------------------------------
(* The schema *)

\* a null foreign key (null=True columns hold it after SET_NULL)
NULL == 0

Tables ==
    {"User", "EmailVerificationToken", "UserSession", "LoginAttempt", "Group",
     "UserGroup", "Building", "Device", "Ticket", "TicketEntry",
     "TicketMiscEntry", "TicketEntryDevice", "Notification", "Alert", "History"}

FK(table, field, to, on_delete, null) ==
    [table |-> table, field |-> field, to |-> to, on_delete |-> on_delete, null |-> null]

\* every models.ForeignKey of the file
ForeignKeys ==
    { FK("EmailVerificationToken", "user", "User", "CASCADE", FALSE),
      FK("UserSession", "user", "User", "CASCADE", FALSE),
      FK("LoginAttempt", "user", "User", "SET_NULL", TRUE),
      FK("UserGroup", "user", "User", "CASCADE", FALSE),
      FK("UserGroup", "group", "Group", "CASCADE", FALSE),
      FK("Device", "building", "Building", "RESTRICT", FALSE),
      FK("TicketEntry", "user", "User", "CASCADE", FALSE),
      FK("TicketEntry", "ticket", "Ticket", "CASCADE", FALSE),
      FK("TicketMiscEntry", "user", "User", "CASCADE", FALSE),
      FK("TicketEntryDevice", "entry", "TicketEntry", "CASCADE", FALSE),
      FK("TicketEntryDevice", "device", "Device", "RESTRICT", FALSE),
      FK("Notification", "user", "User", "SET_NULL", TRUE),
      FK("Notification", "group", "Group", "SET_NULL", TRUE),
      FK("Alert", "user", "User", "SET_NULL", TRUE),
      FK("Alert", "group", "Group", "SET_NULL", TRUE),
      FK("Alert", "entry", "TicketEntry", "SET_NULL", TRUE),
      FK("History", "user", "User", "CASCADE", FALSE) }

UQ(table, fields) == [table |-> table, fields |-> fields]

\* every unique=True column and every unique_together of the file (the uuid
\* columns, whose default uuid4 never repeats, are left out)
UniqueConstraints ==
    { UQ("User", {"email"}),
      UQ("EmailVerificationToken", {"token"}),
      UQ("UserSession", {"token"}),
      UQ("Group", {"group_name"}),
      UQ("UserGroup", {"user", "group"}),
      UQ("Device", {"building", "device_name"}),
      UQ("Ticket", {"ticket_number"}),
      UQ("TicketEntryDevice", {"entry", "device"}) }

Names == 1..MaxNames
Ref == NULL..MaxRows

\* the columns of each table that the model keeps, as the values a caller
\* may hand to an insert (the primary key is assigned by the insert)
User ==
    [email : Names, user_is_admin : BOOLEAN, user_is_manager : BOOLEAN,
     is_superuser : BOOLEAN, is_staff : BOOLEAN]
EmailVerificationToken == [user : Ref, token : Names]
UserSession == [user : Ref, token : Names]
LoginAttempt == [user : Ref, success : BOOLEAN]
Group == [group_name : Names]
UserGroup == [user : Ref, group : Ref]
Building == [building_name : {1}]
Device == [building : Ref, device_name : Names]
Ticket == [ticket_number : Names]
TicketEntry == [user : Ref, ticket : Ref]
TicketMiscEntry == [user : Ref]
TicketEntryDevice == [entry : Ref, device : Ref]
Notification == [user : Ref, group : Ref, title : {1}]
Alert == [user : Ref, group : Ref, entry : Ref]
History == [user : Ref, record_id : {1}]

Inputs(t) ==
    CASE t = "User" -> User
      [] t = "EmailVerificationToken" -> EmailVerificationToken
      [] t = "UserSession" -> UserSession
      [] t = "LoginAttempt" -> LoginAttempt
      [] t = "Group" -> Group
      [] t = "UserGroup" -> UserGroup
      [] t = "Building" -> Building
      [] t = "Device" -> Device
      [] t = "Ticket" -> Ticket
      [] t = "TicketEntry" -> TicketEntry
      [] t = "TicketMiscEntry" -> TicketMiscEntry
      [] t = "TicketEntryDevice" -> TicketEntryDevice
      [] t = "Notification" -> Notification
      [] t = "Alert" -> Alert
      [] t = "History" -> History

-----------------------------------------------------------------------------
(* Column constraints checked by the store when a row is written *)

FKsOf(t) == {fk \in ForeignKeys : fk.table = t}

NotNullOK(t, row) ==
    \A fk \in FKsOf(t) : fk.null \/ row[fk.field] # NULL

\* a store that enforces unique_together alone, as if unique=True were dropped
UniqueTogetherOnly(t, row) ==
    \A u \in UniqueConstraints :
        (u.table = t /\ Cardinality(u.fields) > 1) =>
            ~ \E r \in db[t] : r.id # row.id /\ \A f \in u.fields : r[f] = row[f]

\* a store that enforces unique=True alone, as if unique_together were dropped
UniqueColumnsOnly(t, row) ==
    \A u \in UniqueConstraints :
        (u.table = t /\ Cardinality(u.fields) = 1) =>
            ~ \E r \in db[t] : r.id # row.id /\ \A f \in u.fields : r[f] = row[f]

UniqueOK(t, row) ==
    \A u \in UniqueConstraints :
        u.table = t =>
            ~ \E r \in db[t] : r.id # row.id /\ \A f \in u.fields : r[f] = row[f]

ForeignKeyOK(t, row) ==
    \A fk \in FKsOf(t) :
        row[fk.field] = NULL \/ \E p \in db[fk.to] : p.id = row[fk.field]

\* "" when the row may be written, else the constraint that rejects it
Violation(t, row) ==
    IF ~ NotNullOK(t, row) THEN "not null"
    ELSE IF ~ UniqueOK(t, row) THEN "unique"
    ELSE IF ~ ForeignKeyOK(t, row) THEN "foreign key"
    ELSE ""

\* what the last operation was and how it ended: the table, the primary key
\* it wrote or aimed at (NULL when it wrote none), the error it raised, and
\* for a delete the rows it deleted and the rows whose key it set to null
Effect(op, t, id, result, constraint, deleted, nulled) ==
    [op |-> op, table |-> t, id |-> id, result |-> result, constraint |-> constraint,
     deleted |-> deleted, nulled |-> nulled]

Outcome(op, t, id, result, constraint) ==
    Effect(op, t, id, result, constraint, 0, 0)

-----------------------------------------------------------------------------
(* models.Model.save of a new row of any table but User *)

Insert(t, r) ==
    LET row == [id |-> nextId[t]] @@ r
        v == Violation(t, row)
    IN  /\ t # "User"
        /\ v = "" => nextId[t] <= MaxRows
        /\ IF v = ""
           THEN /\ db' = [db EXCEPT ![t] = @ \cup {row}]
                /\ nextId' = [nextId EXCEPT ![t] = @ + 1]
                /\ last' = Outcome("insert", t, row.id, "ok", "")
           ELSE /\ UNCHANGED <<db, nextId>>
                /\ last' = Outcome("insert", t, NULL, "IntegrityError", v)
        /\ UNCHANGED mem

-----------------------------------------------------------------------------
(* models.Model.delete: the collector follows the on_delete rule of every  *)
(* foreign key that points at a collected row                               *)

Obj(t, id) == [table |-> t, id |-> id]

\* the rows that reference a row of S through fk
Referrers(fk, S) ==
    {r \in db[fk.table] : r[fk.field] # NULL /\ Obj(fk.to, r[fk.field]) \in S}

\* a cascade that takes every row of the referencing table, not only the
\* rows that reference a collected row
CascadeWholeTable(S) ==
    S \cup UNION { {Obj(fk.table, r.id) : r \in {x \in db[fk.table] : Referrers(fk, S) # {}}} :
                   fk \in {k \in ForeignKeys : k.on_delete = "CASCADE"} }

CascadeStep(S) ==
    S \cup UNION { {Obj(fk.table, r.id) : r \in Referrers(fk, S)} :
                   fk \in {k \in ForeignKeys : k.on_delete = "CASCADE"} }

\* a collector that follows the cascading keys one level deep only
CollectDirect(S) == CascadeStep(S)

RECURSIVE Collect(_)
Collect(S) == IF CascadeStep(S) = S THEN S ELSE Collect(CascadeStep(S))

\* a collector that lets a RESTRICT key pass, as DO_NOTHING would
RestrictIgnored(S) == {}

\* rows that reference a collected row through a RESTRICT key and are not
\* themselves collected
Restricted(S) ==
    UNION { {Obj(fk.table, r.id) : r \in Referrers(fk, S)} :
            fk \in {k \in ForeignKeys : k.on_delete = "RESTRICT"} } \ S

\* SET_NULL that clears every nullable key of a row that references a
\* collected row, not only the key that references it
SetNullEveryKey(t, r, S) ==
    [f \in DOMAIN r |->
        IF /\ \E fk \in FKsOf(t) : fk.field = f /\ fk.on_delete = "SET_NULL"
           /\ \E fk \in FKsOf(t) :
                 /\ fk.on_delete = "SET_NULL"
                 /\ r[fk.field] # NULL
                 /\ Obj(fk.to, r[fk.field]) \in S
        THEN NULL ELSE r[f]]

\* SET_NULL that clears the key in every row of the table, whichever row of
\* the referenced table it points at
SetNullWholeTable(t, r, S) ==
    [f \in DOMAIN r |->
        IF \E fk \in FKsOf(t) :
              /\ fk.field = f
              /\ fk.on_delete = "SET_NULL"
              /\ \E o \in S : o.table = fk.to
        THEN NULL ELSE r[f]]

SetNull(t, r, S) ==
    [f \in DOMAIN r |->
        IF \E fk \in FKsOf(t) :
              /\ fk.field = f
              /\ fk.on_delete = "SET_NULL"
              /\ r[f] # NULL
              /\ Obj(fk.to, r[f]) \in S
        THEN NULL ELSE r[f]]

\* how many rows the delete of S leaves with a key set to null
Nulled(S) ==
    Cardinality(UNION { {Obj(t, r.id) : r \in {x \in db[t] : Obj(t, x.id) \notin S /\ SetNull(t, x, S) # x}} :
                        t \in Tables })

AfterDelete(S) ==
    [t \in Tables |-> {SetNull(t, r, S) : r \in {x \in db[t] : Obj(t, x.id) \notin S}}]

Delete(t, id) ==
    LET S == Collect({Obj(t, id)})
    IN  /\ \E r \in db[t] : r.id = id
        /\ IF Restricted(S) # {}
           THEN /\ UNCHANGED db
                /\ last' = Outcome("delete", t, id, "RestrictedError", "restrict")
           ELSE /\ db' = AfterDelete(S)
                /\ last' = Effect("delete", t, id, "ok", "", Cardinality(S), Nulled(S))
        /\ UNCHANGED <<nextId, mem>>

-----------------------------------------------------------------------------
(* User.save *)

\* the requests that hold a User instance in memory
Procs == {1, 2}

UserColumns == {"email", "user_is_admin", "user_is_manager", "is_superuser", "is_staff"}

\* no instance held
NoObj ==
    [live |-> FALSE, adding |-> FALSE, id |-> NULL, email |-> 1,
     user_is_admin |-> FALSE, user_is_manager |-> FALSE,
     is_superuser |-> FALSE, is_staff |-> FALSE]

\* the stored columns of an instance
Row(obj) == [f \in UserColumns \cup {"id"} |-> obj[f]]

\* lines 44-45: the two derived flags are forced from the role flags
DeriveFlags(obj) ==
    [obj EXCEPT !.is_superuser = obj.user_is_admin,
                !.is_staff = obj.user_is_manager \/ obj.user_is_admin]

\* the update_fields argument of save: None, or a collection of column names
UpdateFields ==
    {[none |-> TRUE, fields |-> {}]} \cup
    {[none |-> FALSE, fields |-> s] : s \in SUBSET UserColumns}

\* the row an UPDATE leaves: the columns named by update_fields (all of them
\* when it is None) are taken from the instance, the others stay as stored
Updated(stored, obj, uf) ==
    [f \in DOMAIN stored |->
        IF f # "id" /\ (uf.none \/ f \in uf.fields) THEN obj[f] ELSE stored[f]]

\* User(**attrs): a new instance, not yet saved
Construct(p, attrs) ==
    /\ mem' = [mem EXCEPT ![p] = [live |-> TRUE, adding |-> TRUE, id |-> NULL] @@ attrs]
    /\ last' = Outcome("construct", "User", NULL, "ok", "")
    /\ UNCHANGED <<db, nextId>>

\* User.objects.get(pk=id)
Get(p, id) ==
    /\ \E r \in db["User"] :
          /\ r.id = id
          /\ mem' = [mem EXCEPT ![p] = [live |-> TRUE, adding |-> FALSE] @@ r]
    /\ last' = Outcome("get", "User", id, "ok", "")
    /\ UNCHANGED <<db, nextId>>

\* the caller assigns attributes of the instance it holds
SetAttr(p, attrs) ==
    /\ mem[p].live
    /\ mem' = [mem EXCEPT ![p] = attrs @@ mem[p]]
    /\ last' = Outcome("setattr", "User", mem[p].id, "ok", "")
    /\ UNCHANGED <<db, nextId>>

\* User.save(update_fields=uf): lines 44-45, then models.Model.save
Save(p, uf) ==
    LET obj == DeriveFlags(mem[p])
        stored == {r \in db["User"] : r.id = obj.id}
        fresh == [obj EXCEPT !.id = nextId["User"], !.adding = FALSE]
    IN  /\ mem[p].live
        /\ IF ~ uf.none /\ uf.fields = {}
           THEN \* an empty update_fields: save returns without writing
                /\ mem' = [mem EXCEPT ![p] = obj]
                /\ db' = db
                /\ last' = Outcome("skip", "User", obj.id, "ok", "")
           ELSE IF obj.adding
           THEN \* INSERT of every column under a fresh primary key
                LET v == Violation("User", Row(fresh))
                IN  /\ v = "" => nextId["User"] <= MaxRows
                    /\ IF v = ""
                       THEN /\ db' = [db EXCEPT !["User"] = @ \cup {Row(fresh)}]
                            /\ mem' = [mem EXCEPT ![p] = fresh]
                            /\ last' = Outcome("insert", "User", fresh.id, "ok", "")
                       ELSE /\ db' = db
                            /\ mem' = [mem EXCEPT ![p] = obj]
                            /\ last' = Outcome("insert", "User", NULL, "IntegrityError", v)
           ELSE IF stored # {}
           THEN \* UPDATE ... WHERE id = obj.id
                LET old == CHOOSE r \in stored : TRUE
                    new == Updated(old, obj, uf)
                    v == Violation("User", new)
                IN  /\ mem' = [mem EXCEPT ![p] = obj]
                    /\ IF v = ""
                       THEN /\ db' = [db EXCEPT !["User"] = (@ \ {old}) \cup {new}]
                            /\ last' = Outcome("update", "User", obj.id, "ok", "")
                       ELSE /\ db' = db
                            /\ last' = Outcome("update", "User", obj.id, "IntegrityError", v)
           ELSE IF uf.none
           THEN \* the UPDATE matched no row: INSERT under the instance's key
                LET v == Violation("User", Row(obj))
                IN  /\ mem' = [mem EXCEPT ![p] = obj]
                    /\ IF v = ""
                       THEN /\ db' = [db EXCEPT !["User"] = @ \cup {Row(obj)}]
                            /\ last' = Outcome("insert", "User", obj.id, "ok", "")
                       ELSE /\ db' = db
                            /\ last' = Outcome("insert", "User", NULL, "IntegrityError", v)
           ELSE \* update_fields given and no row matched
                /\ mem' = [mem EXCEPT ![p] = obj]
                /\ db' = db
                /\ last' = Outcome("update", "User", obj.id, "DatabaseError", "no row")
        \* the insert of a new instance consumed a primary key
        /\ nextId' = [nextId EXCEPT !["User"] = IF obj.adding /\ db' # db THEN @ + 1 ELSE @]

\* User.objects.create(**attrs): construct the instance and save it
Create(attrs) ==
    LET row == Row(DeriveFlags([id |-> nextId["User"]] @@ attrs))
        v == Violation("User", row)
    IN  /\ v = "" => nextId["User"] <= MaxRows
        /\ IF v = ""
           THEN /\ db' = [db EXCEPT !["User"] = @ \cup {row}]
                /\ nextId' = [nextId EXCEPT !["User"] = @ + 1]
                /\ last' = Outcome("insert", "User", row.id, "ok", "")
           ELSE /\ UNCHANGED <<db, nextId>>
                /\ last' = Outcome("insert", "User", NULL, "IntegrityError", v)
        /\ UNCHANGED mem

-----------------------------------------------------------------------------
(* The store after construction, and the specifications *)

Init ==
    /\ db = [t \in Tables |-> {}]
    /\ nextId = [t \in Tables |-> 1]
    /\ mem = [p \in Procs |-> NoObj]
    /\ last = Outcome("none", "", NULL, "ok", "")

\* users whose role flags are all clear
PlainUser ==
    {a \in User : ~ a.user_is_admin /\ ~ a.user_is_manager /\ ~ a.is_superuser /\ ~ a.is_staff}

\* rows inserted so far into the tables T
RECURSIVE Inserted(_)
Inserted(T) ==
    IF T = {} THEN 0
    ELSE LET t == CHOOSE x \in T : TRUE IN (nextId[t] - 1) + Inserted(T \ {t})

\* the caller hands a unique text column (email, group_name, ticket_number,
\* token, device_name within the building) the first value that is free for
\* the row, or any value once none is free
FirstFree(t, r) ==
    \A u \in UniqueConstraints :
        u.table = t =>
            \A f \in u.fields \ {fk.field : fk \in FKsOf(t)} :
                LET free == {n \in Names :
                                ~ \E x \in db[t] :
                                    x[f] = n /\ \A g \in u.fields \ {f} : x[g] = r[g]}
                IN  free = {} \/ \A n \in free : r[f] <= n

\* an insert into one of the tables T; it may add a row while the table has
\* handed out fewer than cap keys and the tables T fewer than total
InsertInto(T, cap, total) ==
    \E t \in T \ {"User"} : \E r \in Inputs(t) :
        /\ FirstFree(t, r)
        /\ Insert(t, r)
        /\ nextId'[t] = nextId[t] \/ (nextId[t] <= cap /\ Inserted(T) < total)

CreateUser(T, cap, total) ==
    \E a \in PlainUser :
        /\ FirstFree("User", a)
        /\ Create(a)
        /\ nextId'["User"] = nextId["User"] \/ (nextId["User"] <= cap /\ Inserted(T) < total)

DeleteFrom(T) ==
    \E t \in T : \E id \in 1..MaxRows : Delete(t, id)

\* one request saving Users with every combination of flags
OneUser == {a \in User : a.email = 1}

NextUser ==
    \/ \E a \in OneUser : Construct(1, a)
    \/ \E id \in 1..MaxRows : Get(1, id)
    \/ \E a \in OneUser : SetAttr(1, a)
    \/ \E uf \in UpdateFields : Save(1, uf)
    \/ DeleteFrom({"User"})

SpecUser == Init /\ [][NextUser]_vars

\* two requests that insert and update Users concurrently
NextConc ==
    \/ \E p \in Procs : \E a \in PlainUser : Construct(p, a)
    \/ \E p \in Procs : \E id \in 1..MaxRows : Get(p, id)
    \/ \E p \in Procs : \E a \in PlainUser : SetAttr(p, a)
    \/ \E p \in Procs : Save(p, [none |-> TRUE, fields |-> {}])
    \/ \E a \in PlainUser : Create(a)
    \/ DeleteFrom({"User"})

SpecConc == Init /\ [][NextConc]_vars

\* buildings and their devices
DeviceTables == {"Building", "Device"}

NextDevice ==
    \/ \E t \in DeviceTables : \E r \in Inputs(t) : Insert(t, r)
    \/ DeleteFrom(DeviceTables)

SpecDevice == Init /\ [][NextDevice]_vars

\* users, groups and memberships
MemberTables == {"User", "Group", "UserGroup"}

\* rows for two users, two groups and a membership, or one more membership
\* and one user or group less
MemberTotal == MaxTotal + 1

NextMembers ==
    \/ InsertInto(MemberTables, MaxRows, MemberTotal)
    \/ CreateUser(MemberTables, MaxRows, MemberTotal)
    \/ DeleteFrom(MemberTables)

SpecMembers == Init /\ [][NextMembers]_vars

\* one user's entry of one ticket, the devices of one building, and the
\* entry-device links
LinkOwners == {"User", "Ticket", "Building", "TicketEntry"}
LinkTables == {"Device", "TicketEntryDevice"}

\* rows for one entry of one user's ticket, two devices of one building and
\* their links
LinkTotal == MaxTotal + 4

NextLinks ==
    \/ InsertInto(LinkOwners, MaxSingle, LinkTotal - Inserted(LinkTables))
    \/ CreateUser(LinkOwners, MaxSingle, LinkTotal - Inserted(LinkTables))
    \/ InsertInto(LinkTables, MaxRows, LinkTotal - Inserted(LinkOwners))
    \/ DeleteFrom(LinkOwners \cup LinkTables)

SpecLinks == Init /\ [][NextLinks]_vars

\* users, groups and the rows that keep a nullable or cascading key to them
AuditTables == {"User", "Group", "LoginAttempt", "Notification", "History"}

NextAudit ==
    \/ InsertInto(AuditTables, MaxRows, MaxTotal)
    \/ CreateUser(AuditTables, MaxRows, MaxTotal)
    \/ DeleteFrom(AuditTables)

SpecAudit == Init /\ [][NextAudit]_vars

\* the whole chain from users, tickets, buildings and groups down to the
\* entry-device links and the alerts
ChainTables ==
    {"User", "Group", "Ticket", "Building", "Device", "TicketEntry",
     "TicketEntryDevice", "Alert"}

\* rows for one chain: user, ticket, entry, building, device, link, alert
ChainTotal == MaxTotal + 3

NextChain ==
    \/ InsertInto(ChainTables, MaxSingle, ChainTotal)
    \/ CreateUser(ChainTables, MaxSingle, ChainTotal)
    \/ DeleteFrom(ChainTables)

SpecChain == Init /\ [][NextChain]_vars

-----------------------------------------------------------------------------
(* The claims *)

\* C1: after any User.save the stored row has is_superuser = user_is_admin
\* and is_staff = (user_is_manager or user_is_admin), whatever the instance
\* held before the call.
C1_DerivedFlagsStored ==
    \A r \in db["User"] :
        /\ r.is_superuser = r.user_is_admin
        /\ r.is_staff = (r.user_is_manager \/ r.user_is_admin)

\* C2: no two stored Users share an email, and an insert of a User whose
\* email is already stored, by whichever request, ends in a constraint
\* violation and leaves the store as it was.
UniqueEmail ==
    \A r1, r2 \in db["User"] : r1.email = r2.email => r1 = r2

DuplicateEmailRejected ==
    /\ \A p \in Procs :
          ( /\ Save(p, [none |-> TRUE, fields |-> {}])
            /\ mem[p].adding
            /\ \E r \in db["User"] : r.email = mem[p].email )
          => ( /\ last'.result = "IntegrityError"
               /\ last'.constraint = "unique"
               /\ db' = db )
    /\ \A a \in PlainUser :
          ( Create(a) /\ \E r \in db["User"] : r.email = a.email )
          => ( /\ last'.result = "IntegrityError"
               /\ last'.constraint = "unique"
               /\ db' = db )

C2_EmailUnique == []UniqueEmail /\ [][DuplicateEmailRejected]_vars

\* two requests hold new instances with one email: one is stored, the other
\* insert has just been rejected
C2_Witness ==
    /\ last.op = "insert" /\ last.table = "User"
    /\ last.result = "IntegrityError" /\ last.constraint = "unique"
    /\ \E p, q \in Procs :
          /\ p # q
          /\ mem[p].live /\ mem[p].adding
          /\ mem[q].live /\ ~ mem[q].adding
          /\ mem[p].email = mem[q].email
          /\ Row(mem[q]) \in db["User"]

\* C3: a delete that RESTRICT blocks is rejected as a whole: a Building with
\* a Device, and a Device with a TicketEntryDevice, stay stored with every
\* row that references them and the delete raises the error; a Building
\* with no Device and a Device with no link are deleted.
Exists(t, id) == \E r \in db[t] : r.id = id

RestrictBlocks(t, child, field) ==
    (last'.op = "delete" /\ last'.table = t /\ Exists(t, last'.id)) =>
        IF \E c \in db[child] : c[field] = last'.id
        THEN /\ last'.result = "RestrictedError"
             /\ db' = db
        ELSE /\ last'.result = "ok"
             /\ db'[t] = {r \in db[t] : r.id # last'.id}

C3_RestrictRejects ==
    [][ /\ RestrictBlocks("Building", "Device", "building")
        /\ RestrictBlocks("Device", "TicketEntryDevice", "device") ]_vars

\* the delete of a Device that an entry is linked to has just been rejected,
\* and the device, its building and the link are all stored
C3_Witness ==
    /\ last.op = "delete" /\ last.table = "Device" /\ last.result = "RestrictedError"
    /\ \E d \in db["Device"] :
          /\ d.id = last.id
          /\ Exists("Building", d.building)
          /\ \E l \in db["TicketEntryDevice"] : l.device = d.id

\* C6: no two stored Devices share building and device_name; an insert of a
\* Device whose (building, device_name) is stored ends in a constraint
\* violation and leaves the store as it was; with the same device_name in
\* another stored building it succeeds.
SamePair(r1, r2, f, g) == r1[f] = r2[f] /\ r1[g] = r2[g]

PairUnique(t, f, g) ==
    \A r1, r2 \in db[t] : SamePair(r1, r2, f, g) => r1 = r2

\* an insert of r into t: rejected when its pair is stored, done when the
\* pair is new and both rows it refers to are stored
PairInsert(t, f, g) ==
    \A r \in {x \in Inputs(t) : last'.op = "insert" /\ last'.table = t} :
        Insert(t, r) =>
            IF \E x \in db[t] : SamePair(x, r, f, g)
            THEN /\ last'.result = "IntegrityError"
                 /\ last'.constraint = "unique"
                 /\ db' = db
            ELSE (r[f] # NULL /\ r[g] # NULL /\ ForeignKeyOK(t, r)) =>
                    /\ last'.result = "ok"
                    /\ db'[t] = db[t] \cup {[id |-> nextId[t]] @@ r}

C6_DevicePairUnique ==
    /\ []PairUnique("Device", "building", "device_name")
    /\ [][PairInsert("Device", "building", "device_name")]_vars

\* one device_name is stored in two buildings, and the insert of a stored
\* pair has just been rejected
C6_Witness ==
    /\ last.op = "insert" /\ last.table = "Device"
    /\ last.result = "IntegrityError" /\ last.constraint = "unique"
    /\ \E d1, d2 \in db["Device"] :
          d1.device_name = d2.device_name /\ d1.building # d2.building

\* C7: no two TicketEntryDevice rows share entry and device; attaching a
\* Device that is attached to the entry ends in a constraint violation and
\* leaves the links as they were; attaching a second Device succeeds.
C7_LinkPairUnique ==
    /\ []PairUnique("TicketEntryDevice", "entry", "device")
    /\ [][PairInsert("TicketEntryDevice", "entry", "device")]_vars

\* two devices are attached to one entry, and attaching one of them again
\* has just been rejected
C7_Witness ==
    /\ last.op = "insert" /\ last.table = "TicketEntryDevice"
    /\ last.result = "IntegrityError" /\ last.constraint = "unique"
    /\ \E l1, l2 \in db["TicketEntryDevice"] :
          l1.entry = l2.entry /\ l1.device # l2.device

\* C8: no two UserGroup rows share user and group; an insert of a stored
\* (user, group) pair ends in a constraint violation and leaves the
\* memberships as they were; the same user with another group, or the same
\* group with another user, is inserted.
C8_MemberPairUnique ==
    /\ []PairUnique("UserGroup", "user", "group")
    /\ [][PairInsert("UserGroup", "user", "group")]_vars

\* one user is a member of two groups, and the insert of a stored
\* membership has just been rejected
C8_Witness ==
    /\ last.op = "insert" /\ last.table = "UserGroup"
    /\ last.result = "IntegrityError" /\ last.constraint = "unique"
    /\ \E m1, m2 \in db["UserGroup"] :
          m1.user = m2.user /\ m1.group # m2.group

\* C4: the delete of a User succeeds and leaves every Notification and every
\* LoginAttempt stored, with the user key set to null where it pointed at
\* that User and every other column as it was; the delete of a Group does
\* the same to the group key of the Notifications.
Deletes(t) ==
    last'.op = "delete" /\ last'.table = t /\ Exists(t, last'.id)

NullsKey(t, field, parent) ==
    Deletes(parent) =>
        /\ last'.result = "ok"
        /\ ~ \E p \in db'[parent] : p.id = last'.id
        /\ db'[t] = {[r EXCEPT ![field] = IF r[field] = last'.id THEN NULL ELSE r[field]] :
                     r \in db[t]}

C4_SetNullKeepsRows ==
    [][ /\ NullsKey("Notification", "user", "User")
        /\ NullsKey("LoginAttempt", "user", "User")
        /\ NullsKey("Notification", "group", "Group") ]_vars

\* a User has just been deleted; a Notification that pointed at it is stored
\* with a null user and its group, and a LoginAttempt with a null user
C4_Witness ==
    /\ last.op = "delete" /\ last.table = "User" /\ last.result = "ok"
    /\ last.nulled >= 2
    /\ \E n \in db["Notification"] : n.user = NULL /\ n.group # NULL
    /\ \E a \in db["LoginAttempt"] : a.user = NULL

\* C5: the delete of a User deletes the History rows of that User and no
\* other History row; none is left that references the User.
C5_HistoryCascades ==
    [][ Deletes("User") =>
          /\ last'.result = "ok"
          /\ db'["History"] = {h \in db["History"] : h.user # last'.id} ]_vars

\* a User has just been deleted with its History row, and the History row
\* of another User is stored
C5_Witness ==
    /\ last.op = "delete" /\ last.table = "User" /\ last.result = "ok"
    /\ last.deleted >= 2
    /\ \E h \in db["History"] : Exists("User", h.user)

ReferentialIntegrity ==
    \A fk \in ForeignKeys : \A r \in db[fk.table] :
        r[fk.field] # NULL => Exists(fk.to, r[fk.field])

CascadesToLinks(parent, field) ==
    Deletes(parent) =>
        LET gone == {e.id : e \in {x \in db["TicketEntry"] : x[field] = last'.id}}
        IN  /\ last'.result = "ok"
            /\ db'["TicketEntry"] = {e \in db["TicketEntry"] : e.id \notin gone}
            /\ db'["TicketEntryDevice"] =
                  {l \in db["TicketEntryDevice"] : l.entry \notin gone}
            /\ {a.id : a \in db'["Alert"]} = {a.id : a \in db["Alert"]}
            /\ \A a \in db["Alert"] : \A b \in db'["Alert"] :
                  a.id = b.id => b.entry = IF a.entry \in gone THEN NULL ELSE a.entry
            /\ db'["Device"] = db["Device"]
            /\ db'["Building"] = db["Building"]
            /\ db'["Group"] = db["Group"]

C10_ReferentialIntegrity ==
    /\ []ReferentialIntegrity
    /\ [][CascadesToLinks("User", "user") /\ CascadesToLinks("Ticket", "ticket")]_vars

\* a User has just been deleted with its entry and the entry's link to a
\* Device; the Device is stored and an Alert is stored with a null entry
C10_Witness ==
    /\ last.op = "delete" /\ last.table = "User" /\ last.result = "ok"
    /\ last.deleted >= 3
    /\ last.nulled >= 1
    /\ db["Device"] # {}
    /\ db["TicketEntryDevice"] = {}
    /\ \E a \in db["Alert"] : a.entry = NULL

====
